---- MODULE Spec2Model ----
(***************************************************************************)
(* Model of griptape_screenwriter/structure.py: the four agents            *)
(* (PlotArchitectAgent, CharacterDesignerAgent, ThematicAnalystAgent,      *)
(* SceneShaperAgent), the helper clean_json and the orchestrator           *)
(* run_story_pipeline.                                                     *)
(*                                                                         *)
(* A response text is a sequence of tokens.  One token stands for one      *)
(* lexical unit of the text: a whitespace run, a backtick, one of the      *)
(* letters j/s/o/n of a fence tag, a word of prose, a bracket, an object   *)
(* key (with its colon) or a scalar literal.  Commas are elided.           *)
(***************************************************************************)
EXTENDS Naturals, Sequences, FiniteSets, TLC

VARIABLES
    pc,        \* the line run_story_pipeline is at ("idle", "L168".."L172", "done", "failed"), or "direct" for a caller of the agents
    premise,   \* the argument of the current run_story_pipeline call
    data,      \* the local variable data (a StoryData)
    stub,      \* the generation backend: per agent, a transport failure or a fixed response text
    calls,     \* number of generation calls made, per agent, in the current run
    log,       \* the agent invocations of the current run, in order
    returned,  \* what run_story_pipeline returned to its caller (None until then)
    history,   \* summaries of the finished runs of this process
    raw,       \* the argument of a stand-alone clean_json call
    cleaned    \* its result

vars == <<pc, premise, data, stub, calls, log, returned, history, raw, cleaned>>

----------------------------------------------------------------------------
\* Bounds of the model.

\* longest text handed to a stand-alone clean_json call
MaxLen == 4
\* number of run_story_pipeline calls made by one process
MaxRuns == 2
\* number of direct agent.run calls made by one caller
MaxDirect == 2

----------------------------------------------------------------------------
\* Tokens.

WS == " "
\* a backtick
TICK == "bt"
\* the characters of the argument of the first lstrip: backtick, j, s, o, n
FenceTagChars == {TICK, "j", "s", "o", "n"}
\* the characters of the argument of the second lstrip: backtick
FenceChars == {TICK}
PROSE == "x"
Strs == {"a", "b"}
Ints == {"1", "2"}
Bools == {"true"}
Keys == {"title", "theme", "protagonist_desire", "protagonist_need", "scenes",
         "act", "number", "description", "conflict", "value_change",
         "characters", "name", "role", "backstory", "desire", "need", "arc",
         "issues_found", "notes", "content"}

----------------------------------------------------------------------------
\* Python string helpers.

RECURSIVE lstrip(_, _)
\* str.lstrip(chars): drop the longest prefix made of characters of chars
lstrip(s, chars) ==
    IF s # <<>> /\ Head(s) \in chars THEN lstrip(Tail(s), chars) ELSE s

RECURSIVE rstrip(_, _)
\* str.rstrip(chars)
rstrip(s, chars) ==
    IF s # <<>> /\ s[Len(s)] \in chars THEN rstrip(SubSeq(s, 1, Len(s) - 1), chars) ELSE s

\* str.strip(): whitespace off both ends
strip(s) == rstrip(lstrip(s, {WS}), {WS})

\* positions of the opening braces in s
OpenPositions(s) == {i \in 1..Len(s) : s[i] = "{"}

Min(S) == CHOOSE x \in S : \A y \in S : x <= y

\* the value standing for None of Python
None == [k |-> "none"]

\* JSON_REGEX.search(s): the pattern is an opening brace, then a greedy
\* run of any characters, then an optional closing brace.  The search
\* finds the leftmost opening brace, the greedy run takes every remaining
\* character, and the optional brace matches the empty string: the match
\* runs from the first opening brace to the end of s.
JSON_REGEX_search(s) ==
    IF OpenPositions(s) = {} THEN None
    ELSE [k |-> "match", group0 |-> SubSeq(s, Min(OpenPositions(s)), Len(s))]

\* clean_json without the check of line 66: the text is handed on when nothing matched
clean_json_NoCheck(r) ==
    LET s == lstrip(lstrip(strip(r), FenceTagChars), FenceChars)
        m == JSON_REGEX_search(s)
    IN  [ok |-> TRUE, err |-> "", text |-> IF m = None THEN s ELSE m.group0]

\* clean_json(raw): [ok |-> TRUE, text |-> ...] or the ValueError of line 67
clean_json(r) ==
    LET s == lstrip(lstrip(strip(r), FenceTagChars), FenceChars)
        m == JSON_REGEX_search(s)
    IN  IF m = None
        THEN [ok |-> FALSE, err |-> "ValueError: No JSON object found in LLM response", text |-> <<>>]
        ELSE [ok |-> TRUE, err |-> "", text |-> m.group0]

----------------------------------------------------------------------------
\* json.loads on a token sequence.  A parsed value is one of
\*   [k |-> "str", v |-> token]      [k |-> "int", v |-> token]
\*   [k |-> "bool", v |-> token]     [k |-> "list", items |-> sequence of values]
\*   [k |-> "obj", m |-> sequence of [key, val] in the order of the text]

ParseFail == [ok |-> FALSE, val |-> None, next |-> 0]

RECURSIVE ParseValue(_, _), ParseItems(_, _, _), ParseMembers(_, _, _)
\* one JSON value starting at token i of t
ParseValue(t, i) ==
    IF i > Len(t) THEN ParseFail
    ELSE IF t[i] \in Strs THEN [ok |-> TRUE, val |-> [k |-> "str", v |-> t[i]], next |-> i + 1]
    ELSE IF t[i] \in Ints THEN [ok |-> TRUE, val |-> [k |-> "int", v |-> t[i]], next |-> i + 1]
    ELSE IF t[i] \in Bools THEN [ok |-> TRUE, val |-> [k |-> "bool", v |-> t[i]], next |-> i + 1]
    ELSE IF t[i] = "[" THEN ParseItems(t, i + 1, <<>>)
    ELSE IF t[i] = "{" THEN ParseMembers(t, i + 1, <<>>)
    ELSE ParseFail

\* the elements of an array, up to its closing bracket
ParseItems(t, i, acc) ==
    IF i > Len(t) THEN ParseFail
    ELSE IF t[i] = "]" THEN [ok |-> TRUE, val |-> [k |-> "list", items |-> acc], next |-> i + 1]
    ELSE LET r == ParseValue(t, i)
         IN  IF r.ok THEN ParseItems(t, r.next, Append(acc, r.val)) ELSE ParseFail

\* the members of an object, up to its closing brace
ParseMembers(t, i, acc) ==
    IF i > Len(t) THEN ParseFail
    ELSE IF t[i] = "}" THEN [ok |-> TRUE, val |-> [k |-> "obj", m |-> acc], next |-> i + 1]
    ELSE IF t[i] \in Keys
         THEN LET r == ParseValue(t, i + 1)
              IN  IF r.ok THEN ParseMembers(t, r.next, Append(acc, [key |-> t[i], val |-> r.val]))
                  ELSE ParseFail
    ELSE ParseFail

\* the text without its whitespace tokens (json.loads skips whitespace between tokens)
NoWhitespace(s) == SelectSeq(s, LAMBDA c : c # WS)

\* json.loads(s): one value and nothing after it, else JSONDecodeError
json_loads(s) ==
    LET t == NoWhitespace(s)
        r == ParseValue(t, 1)
    IN  IF r.ok /\ r.next = Len(t) + 1 THEN [ok |-> TRUE, val |-> r.val]
        ELSE [ok |-> FALSE, val |-> None]

\* key in d
HasKey(d, key) == \E i \in 1..Len(d.m) : d.m[i].key = key

\* d[key]: of a repeated key json.loads keeps the last value
Lookup(d, key) ==
    LET idx == {i \in 1..Len(d.m) : d.m[i].key = key}
    IN  d.m[CHOOSE i \in idx : \A j \in idx : j <= i].val

EmptyList == [k |-> "list", items |-> <<>>]

\* d.get(key, [])
dict_get(d, key) == IF HasKey(d, key) THEN Lookup(d, key) ELSE EmptyList

\* bool(v) of a parsed value: empty containers are falsy; the scalar tokens
\* stand for non-empty strings, non-zero integers and true
Truthy(v) ==
    CASE v.k = "list" -> v.items # <<>>
      [] v.k = "obj"  -> v.m # <<>>
      [] OTHER        -> TRUE

----------------------------------------------------------------------------
\* The pydantic models (lines 29-56).

IsStr(d, key) == HasKey(d, key) /\ Lookup(d, key).k = "str"
IsInt(d, key) == HasKey(d, key) /\ Lookup(d, key).k = "int"

Invalid == [ok |-> FALSE, val |-> None]

\* Scene.parse_obj(v): act, number integers; description, conflict, value_change strings; all required
Scene_parse_obj(v) ==
    IF /\ v.k = "obj"
       /\ IsInt(v, "act") /\ IsInt(v, "number")
       /\ IsStr(v, "description") /\ IsStr(v, "conflict") /\ IsStr(v, "value_change")
    THEN [ok |-> TRUE,
          val |-> [act |-> Lookup(v, "act").v, number |-> Lookup(v, "number").v,
                   description |-> Lookup(v, "description").v,
                   conflict |-> Lookup(v, "conflict").v,
                   value_change |-> Lookup(v, "value_change").v]]
    ELSE Invalid

\* Outline.parse_obj with scenes defaulting to the empty list when absent
Outline_parse_obj_DefaultScenes(v) ==
    IF /\ v.k = "obj"
       /\ IsStr(v, "title") /\ IsStr(v, "theme")
       /\ IsStr(v, "protagonist_desire") /\ IsStr(v, "protagonist_need")
       /\ (HasKey(v, "scenes") =>
             /\ Lookup(v, "scenes").k = "list"
             /\ \A i \in 1..Len(Lookup(v, "scenes").items) :
                   Scene_parse_obj(Lookup(v, "scenes").items[i]).ok)
    THEN [ok |-> TRUE,
          val |-> [k |-> "Outline",
                   title |-> Lookup(v, "title").v, theme |-> Lookup(v, "theme").v,
                   protagonist_desire |-> Lookup(v, "protagonist_desire").v,
                   protagonist_need |-> Lookup(v, "protagonist_need").v,
                   scenes |-> [i \in 1..Len(dict_get(v, "scenes").items) |->
                                  Scene_parse_obj(dict_get(v, "scenes").items[i]).val]]]
    ELSE Invalid

\* Outline.parse_obj(v): four required strings and the required list of scenes
Outline_parse_obj(v) ==
    IF /\ v.k = "obj"
       /\ IsStr(v, "title") /\ IsStr(v, "theme")
       /\ IsStr(v, "protagonist_desire") /\ IsStr(v, "protagonist_need")
       /\ HasKey(v, "scenes") /\ Lookup(v, "scenes").k = "list"
       /\ \A i \in 1..Len(Lookup(v, "scenes").items) : Scene_parse_obj(Lookup(v, "scenes").items[i]).ok
    THEN [ok |-> TRUE,
          val |-> [k |-> "Outline",
                   title |-> Lookup(v, "title").v, theme |-> Lookup(v, "theme").v,
                   protagonist_desire |-> Lookup(v, "protagonist_desire").v,
                   protagonist_need |-> Lookup(v, "protagonist_need").v,
                   scenes |-> [i \in 1..Len(Lookup(v, "scenes").items) |->
                                  Scene_parse_obj(Lookup(v, "scenes").items[i]).val]]]
    ELSE Invalid

\* Outline.parse_raw(text): a text that is not JSON is a ValidationError too
Outline_parse_raw(text) ==
    LET j == json_loads(text)
    IN  IF j.ok THEN Outline_parse_obj(j.val) ELSE Invalid

\* Character.parse_obj(v): five required strings; arc is optional and defaults to "Unknown"
Character_parse_obj(v) ==
    IF /\ v.k = "obj"
       /\ IsStr(v, "name") /\ IsStr(v, "role") /\ IsStr(v, "backstory")
       /\ IsStr(v, "desire") /\ IsStr(v, "need")
       /\ (HasKey(v, "arc") => Lookup(v, "arc").k = "str")
    THEN [ok |-> TRUE,
          val |-> [name |-> Lookup(v, "name").v, role |-> Lookup(v, "role").v,
                   backstory |-> Lookup(v, "backstory").v,
                   desire |-> Lookup(v, "desire").v, need |-> Lookup(v, "need").v,
                   arc |-> IF HasKey(v, "arc") THEN Lookup(v, "arc").v ELSE "Unknown"]]
    ELSE Invalid

\* StoryData(premise=p): the other fields take their defaults (lines 52-56)
StoryData(p) ==
    [premise |-> p, outline |-> None, characters |-> <<>>,
     analysis_notes |-> <<>>, screenplay_scenes |-> <<>>]

\* validation of the analysis_notes argument of StoryData(...): List[str]
ValidNotes(v) == v.k = "list" /\ \A i \in 1..Len(v.items) : v.items[i].k = "str"

\* validation of the screenplay_scenes argument of StoryData(...): List[dict]
ValidScenes(v) == v.k = "list" /\ \A i \in 1..Len(v.items) : v.items[i].k = "obj"

----------------------------------------------------------------------------
\* The agents (lines 101-160).  Each run is given the StoryData and what the
\* generation backend answers, and yields
\*   ok      whether run returned (TRUE) or raised (FALSE)
\*   err     the exception raised
\*   called  whether new_driver().run(...) was called
\*   events  what run did, in order
\*   out     the StoryData returned

Agents == {"PlotArchitectAgent", "CharacterDesignerAgent", "ThematicAnalystAgent", "SceneShaperAgent"}

NoData == [k |-> "nodata"]

Raise(e, wasCalled, ev) ==
    [ok |-> FALSE, err |-> e, called |-> wasCalled, events |-> ev, out |-> NoData]

Return(d, ev) ==
    [ok |-> TRUE, err |-> "", called |-> TRUE, events |-> ev, out |-> d]

NoJsonError == "ValueError: No JSON object found in LLM response"

\* PlotArchitectAgent.run asking the backend again after a failed direct parse
PlotArchitectAgent_run_Retry(input_data, resp) ==
    IF resp.fail THEN Raise("GenerationTransportError", TRUE, <<"call">>)
    ELSE LET first == Outline_parse_raw(resp.text)
         IN  IF first.ok
             THEN Return([StoryData(input_data.premise) EXCEPT !.outline = first.val],
                         <<"call", "parse">>)
             ELSE LET cj == clean_json(resp.text)
                  IN  IF ~cj.ok THEN Raise(cj.err, TRUE, <<"call", "parse", "call", "clean_json">>)
                      ELSE LET second == Outline_parse_raw(cj.text)
                           IN  IF second.ok
                               THEN Return([StoryData(input_data.premise) EXCEPT !.outline = second.val],
                                           <<"call", "parse", "call", "clean_json", "parse">>)
                               ELSE Raise("ValidationError", TRUE,
                                          <<"call", "parse", "call", "clean_json", "parse">>)

\* PlotArchitectAgent.run, lines 102-115
PlotArchitectAgent_run(input_data, resp) ==
    IF resp.fail THEN Raise("GenerationTransportError", TRUE, <<"call">>)
    ELSE LET first == Outline_parse_raw(resp.text)
         IN  IF first.ok
             THEN Return([StoryData(input_data.premise) EXCEPT !.outline = first.val],
                         <<"call", "parse">>)
             ELSE LET cj == clean_json(resp.text)
                  IN  IF ~cj.ok THEN Raise(cj.err, TRUE, <<"call", "parse", "clean_json">>)
                      ELSE LET second == Outline_parse_raw(cj.text)
                           IN  IF second.ok
                               THEN Return([StoryData(input_data.premise) EXCEPT !.outline = second.val],
                                           <<"call", "parse", "clean_json", "parse">>)
                               ELSE Raise("ValidationError", TRUE,
                                          <<"call", "parse", "clean_json", "parse">>)

\* [Character.parse_obj(c) for c in chars_json], line 133
ParseCharacters(chars_json) ==
    CASE chars_json.k = "list" ->
            IF \A i \in 1..Len(chars_json.items) : Character_parse_obj(chars_json.items[i]).ok
            THEN [ok |-> TRUE, err |-> "",
                  val |-> [i \in 1..Len(chars_json.items) |-> Character_parse_obj(chars_json.items[i]).val]]
            ELSE [ok |-> FALSE, err |-> "ValidationError", val |-> <<>>]
      \* iterating a dict or a string yields strings, which are no Character
      [] chars_json.k \in {"obj", "str"} -> [ok |-> FALSE, err |-> "ValidationError", val |-> <<>>]
      \* a number or a boolean is not iterable
      [] OTHER -> [ok |-> FALSE, err |-> "TypeError", val |-> <<>>]

\* CharacterDesignerAgent.run without the check of lines 131-132
CharacterDesignerAgent_run_AcceptsEmpty(input_data, resp) ==
    IF input_data.outline = None
    THEN Raise("AssertionError: PlotArchitectAgent failed to produce outline", FALSE, <<>>)
    ELSE IF resp.fail THEN Raise("GenerationTransportError", TRUE, <<"call">>)
    ELSE LET cj == clean_json(resp.text)
         IN  IF ~cj.ok THEN Raise(cj.err, TRUE, <<"call", "clean_json">>)
             ELSE LET j == json_loads(cj.text)
                  IN  IF ~j.ok THEN Raise("JSONDecodeError", TRUE, <<"call", "clean_json", "parse">>)
                      ELSE LET characters == ParseCharacters(dict_get(j.val, "characters"))
                           IN  IF ~characters.ok
                               THEN Raise(characters.err, TRUE, <<"call", "clean_json", "parse">>)
                               ELSE Return([StoryData(input_data.premise) EXCEPT
                                               !.outline = input_data.outline,
                                               !.characters = characters.val],
                                           <<"call", "clean_json", "parse">>)

\* CharacterDesignerAgent.run, lines 118-134
CharacterDesignerAgent_run(input_data, resp) ==
    IF input_data.outline = None
    THEN Raise("AssertionError: PlotArchitectAgent failed to produce outline", FALSE, <<>>)
    ELSE IF resp.fail THEN Raise("GenerationTransportError", TRUE, <<"call">>)
    ELSE LET cj == clean_json(resp.text)
         IN  IF ~cj.ok THEN Raise(cj.err, TRUE, <<"call", "clean_json">>)
             ELSE LET j == json_loads(cj.text)
                  IN  IF ~j.ok THEN Raise("JSONDecodeError", TRUE, <<"call", "clean_json", "parse">>)
                      ELSE LET chars_json == dict_get(j.val, "characters")
                           IN  IF ~Truthy(chars_json)
                               THEN Raise("ValueError: CharacterDesignerAgent: missing 'characters' in response",
                                          TRUE, <<"call", "clean_json", "parse">>)
                               ELSE LET characters == ParseCharacters(chars_json)
                                    IN  IF ~characters.ok
                                        THEN Raise(characters.err, TRUE, <<"call", "clean_json", "parse">>)
                                        ELSE Return([StoryData(input_data.premise) EXCEPT
                                                        !.outline = input_data.outline,
                                                        !.characters = characters.val],
                                                    <<"call", "clean_json", "parse">>)

\* ThematicAnalystAgent.run, lines 137-147
ThematicAnalystAgent_run(input_data, resp) ==
    IF input_data.characters = <<>>
    THEN Raise("AssertionError: CharacterDesignerAgent returned empty characters", FALSE, <<>>)
    \* line 142: input_data.outline.json() on None
    ELSE IF input_data.outline = None THEN Raise("AttributeError", FALSE, <<>>)
    ELSE IF resp.fail THEN Raise("GenerationTransportError", TRUE, <<"call">>)
    ELSE LET cj == clean_json(resp.text)
         IN  IF ~cj.ok THEN Raise(cj.err, TRUE, <<"call", "clean_json">>)
             ELSE LET j == json_loads(cj.text)
                  IN  IF ~j.ok THEN Raise("JSONDecodeError", TRUE, <<"call", "clean_json", "parse">>)
                      ELSE LET notes == dict_get(j.val, "notes")
                           IN  IF ~ValidNotes(notes)
                               THEN Raise("ValidationError", TRUE, <<"call", "clean_json", "parse">>)
                               ELSE Return([StoryData(input_data.premise) EXCEPT
                                               !.outline = input_data.outline,
                                               !.characters = input_data.characters,
                                               !.analysis_notes =
                                                   [i \in 1..Len(notes.items) |-> notes.items[i].v]],
                                           <<"call", "clean_json", "parse">>)

\* SceneShaperAgent.run that does not hand analysis_notes on
SceneShaperAgent_run_DropsNotes(input_data, resp) ==
    IF input_data.outline = None THEN Raise("AttributeError", FALSE, <<>>)
    ELSE IF resp.fail THEN Raise("GenerationTransportError", TRUE, <<"call">>)
    ELSE LET cj == clean_json(resp.text)
         IN  IF ~cj.ok THEN Raise(cj.err, TRUE, <<"call", "clean_json">>)
             ELSE LET j == json_loads(cj.text)
                  IN  IF ~j.ok THEN Raise("JSONDecodeError", TRUE, <<"call", "clean_json", "parse">>)
                      ELSE LET scenes == dict_get(j.val, "scenes")
                           IN  IF ~ValidScenes(scenes)
                               THEN Raise("ValidationError", TRUE, <<"call", "clean_json", "parse">>)
                               ELSE Return([StoryData(input_data.premise) EXCEPT
                                               !.outline = input_data.outline,
                                               !.characters = input_data.characters,
                                               !.screenplay_scenes = scenes.items],
                                           <<"call", "clean_json", "parse">>)

\* SceneShaperAgent.run, lines 150-160
SceneShaperAgent_run(input_data, resp) ==
    \* line 154: input_data.outline.json() on None
    IF input_data.outline = None THEN Raise("AttributeError", FALSE, <<>>)
    ELSE IF resp.fail THEN Raise("GenerationTransportError", TRUE, <<"call">>)
    ELSE LET cj == clean_json(resp.text)
         IN  IF ~cj.ok THEN Raise(cj.err, TRUE, <<"call", "clean_json">>)
             ELSE LET j == json_loads(cj.text)
                  IN  IF ~j.ok THEN Raise("JSONDecodeError", TRUE, <<"call", "clean_json", "parse">>)
                      ELSE LET scenes == dict_get(j.val, "scenes")
                           IN  IF ~ValidScenes(scenes)
                               THEN Raise("ValidationError", TRUE, <<"call", "clean_json", "parse">>)
                               ELSE Return([StoryData(input_data.premise) EXCEPT
                                               !.outline = input_data.outline,
                                               !.characters = input_data.characters,
                                               !.analysis_notes = input_data.analysis_notes,
                                               !.screenplay_scenes = scenes.items],
                                           <<"call", "clean_json", "parse">>)

\* agent.run(input_data) for the agent of that name
AgentRun(agent, input_data, resp) ==
    CASE agent = "PlotArchitectAgent"     -> PlotArchitectAgent_run(input_data, resp)
      [] agent = "CharacterDesignerAgent" -> CharacterDesignerAgent_run(input_data, resp)
      [] agent = "ThematicAnalystAgent"   -> ThematicAnalystAgent_run(input_data, resp)
      [] agent = "SceneShaperAgent"       -> SceneShaperAgent_run(input_data, resp)

----------------------------------------------------------------------------
\* The generation backend: what new_driver(...).run(...) may answer.

FenceOpen == <<TICK, TICK, TICK, "j", "s", "o", "n", WS>>
FenceClose == <<WS, TICK, TICK, TICK>>

SceneJson ==
    <<"{", "act", "1", "number", "2", "description", "a", "conflict", "b", "value_change", "a", "}">>

OutlineJson(title, scenes) ==
    <<"{", "title", title, "theme", "a", "protagonist_desire", "b", "protagonist_need", "a",
      "scenes", "[">> \o scenes \o <<"]", "}">>

CharacterJson(name) ==
    <<"{", "name", name, "role", "a", "backstory", "b", "desire", "a", "need", "b", "}">>

CharacterJsonWithArc(name) ==
    <<"{", "name", name, "role", "a", "backstory", "b", "desire", "a", "need", "b", "arc", "b", "}">>

Text(t) == [fail |-> FALSE, text |-> t]
TransportFailure == [fail |-> TRUE, text |-> <<>>]

\* answers without any JSON object in them
BlankResponses == {Text(<<>>), Text(<<WS>>), Text(<<WS, WS>>), Text(<<PROSE>>), TransportFailure}

PlotResponses ==
    BlankResponses \cup
    { Text(OutlineJson("a", <<>>)),
      Text(<<WS>> \o OutlineJson("b", SceneJson) \o <<WS>>),
      Text(FenceOpen \o OutlineJson("a", SceneJson)),
      Text(<<PROSE, WS>> \o FenceOpen \o OutlineJson("a", <<>>) \o FenceClose \o <<WS, PROSE>>),
      Text(<<"{", "title", "a", "}">>),
      Text(<<"{", "title", "a", "theme", "a", "protagonist_desire", "b", "protagonist_need", "a", "}">>),
      Text(OutlineJson("a", <<"{", "act", "1", "}">>)),
      Text(<<"{", "title">>) }

CharacterResponses ==
    BlankResponses \cup
    { Text(<<"{", "characters", "[">> \o CharacterJson("a") \o <<"]", "}">>),
      Text(<<PROSE, WS, "{", "characters", "[">> \o CharacterJsonWithArc("b") \o CharacterJson("a") \o <<"]", "}", WS>>),
      Text(<<"{", "characters", "[", "]", "}">>),
      Text(<<"{", "}">>),
      Text(<<"{", "characters", "[", "{", "role", "a", "backstory", "b", "desire", "a", "need", "b", "}", "]", "}">>),
      Text(<<"{", "characters", "a", "}">>),
      Text(FenceOpen \o <<"{", "characters", "[">> \o CharacterJson("a") \o <<"]", "}">> \o FenceClose) }

ThematicResponses ==
    BlankResponses \cup
    { Text(<<"{", "issues_found", "true", "notes", "[", "a", "b", "]", "}">>),
      Text(<<"{", "issues_found", "true", "notes", "[", "]", "}">>),
      Text(<<"{", "issues_found", "true", "}">>),
      Text(<<"{", "notes", "a", "}">>),
      Text(<<"{", "notes", "[", "a", "]", "}", WS, PROSE>>) }

SceneResponses ==
    BlankResponses \cup
    { Text(<<"{", "scenes", "[", "{", "number", "1", "content", "a", "}", "]", "}">>),
      Text(<<"{", "scenes", "[", "]", "}">>),
      Text(<<"{", "}">>),
      Text(<<"{", "scenes", "[", "a", "]", "}">>),
      Text(<<"{", "scenes", "[", "{", "number", "1", "content", "a", "}">>) }

Responses(agent) ==
    CASE agent = "PlotArchitectAgent"     -> PlotResponses
      [] agent = "CharacterDesignerAgent" -> CharacterResponses
      [] agent = "ThematicAnalystAgent"   -> ThematicResponses
      [] agent = "SceneShaperAgent"       -> SceneResponses

\* the backend has not been asked for this agent yet
Unset == [k |-> "unset"]

\* A deterministic backend: the answer to an agent is fixed by the first call for it
Answers(agent) == IF stub[agent] = Unset THEN Responses(agent) ELSE {stub[agent]}

----------------------------------------------------------------------------
\* run_story_pipeline (lines 166-172) and its caller.

Premises == {"", "p"}

ZeroCalls == [a \in Agents |-> 0]

Init ==
    /\ pc = "idle"
    /\ premise = "None"
    /\ data = NoData
    /\ stub = [a \in Agents |-> Unset]
    /\ calls = ZeroCalls
    /\ log = <<>>
    /\ returned = None
    /\ history = <<>>
    /\ raw = <<>>
    /\ cleaned = None

\* what is kept of a finished run
Summary(p, l, r, outcome) == [premise |-> p, log |-> l, returned |-> r, outcome |-> outcome]

\* the record of one agent.run call
Invocation(agent, input_data, r, o) ==
    [agent |-> agent, arg |-> input_data, resp |-> IF o.called THEN r ELSE Unset,
     ok |-> o.ok, err |-> o.err, called |-> o.called, events |-> o.events, out |-> o.out]

\* the bookkeeping of one agent.run call that answered r and had outcome o
Invoked(agent, r, o) ==
    /\ log' = Append(log, Invocation(agent, data, r, o))
    /\ calls' = IF o.called THEN [calls EXCEPT ![agent] = @ + 1] ELSE calls
    /\ stub' = IF o.called THEN [stub EXCEPT ![agent] = r] ELSE stub

\* run_story_pipeline rejecting an empty premise before line 167
run_story_pipeline_L167_Validating(p) ==
    /\ data' = StoryData(p)
    /\ pc' = IF p = "" THEN "failed" ELSE "L168"

\* run_story_pipeline keeping the StoryData of the previous run
run_story_pipeline_L167_ReusesData(p) ==
    /\ data' = IF data = NoData THEN StoryData(p) ELSE [data EXCEPT !.premise = p]
    /\ pc' = "L168"

\* line 167: data = StoryData(premise=premise)
run_story_pipeline_L167(p) ==
    /\ data' = StoryData(p)
    /\ pc' = "L168"

\* a call of run_story_pipeline(p)
CallPipeline ==
    /\ pc \in {"idle", "done", "failed"}
    /\ Len(history) < MaxRuns
    /\ \E p \in Premises :
          /\ premise' = p
          /\ run_story_pipeline_L167(p)
    /\ calls' = ZeroCalls
    /\ log' = <<>>
    /\ returned' = None
    /\ UNCHANGED <<stub, history, raw, cleaned>>

\* a run that catches the exception of an agent and goes on
AfterAgent_CatchAndContinue(o, nextLine) == nextLine

\* where the run goes after the agent.run call of a line had outcome o:
\* on to the next line, or out of run_story_pipeline with the exception
AfterAgent(o, nextLine) == IF o.ok THEN nextLine ELSE "failed"

\* data = <agent>().run(data) at one line of run_story_pipeline
PipelineLine(line, agent, nextLine) ==
    /\ pc = line
    /\ \E r \in Answers(agent) :
          LET o == AgentRun(agent, data, r)
          IN  /\ Invoked(agent, r, o)
              /\ pc' = AfterAgent(o, nextLine)
              /\ data' = IF o.ok THEN o.out ELSE data
              /\ history' = IF pc' = "failed"
                            THEN Append(history, Summary(premise, log', None, "failed"))
                            ELSE history
    /\ UNCHANGED <<premise, returned, raw, cleaned>>

run_story_pipeline_L168 == PipelineLine("L168", "PlotArchitectAgent", "L169")
run_story_pipeline_L169 == PipelineLine("L169", "CharacterDesignerAgent", "L170")
run_story_pipeline_L170 == PipelineLine("L170", "ThematicAnalystAgent", "L171")
run_story_pipeline_L171 == PipelineLine("L171", "SceneShaperAgent", "L172")

\* line 172: return data
run_story_pipeline_L172 ==
    /\ pc = "L172"
    /\ pc' = "done"
    /\ returned' = data
    /\ history' = Append(history, Summary(premise, log, data, "done"))
    /\ UNCHANGED <<premise, data, stub, calls, log, raw, cleaned>>

Next ==
    \/ CallPipeline
    \/ run_story_pipeline_L168
    \/ run_story_pipeline_L169
    \/ run_story_pipeline_L170
    \/ run_story_pipeline_L171
    \/ run_story_pipeline_L172

Spec == Init /\ [][Next]_vars

----------------------------------------------------------------------------
\* Direct calls of the agents, in any order, by a caller that holds a StoryData.

OutlineA == Outline_parse_raw(OutlineJson("a", <<>>)).val
CharacterA == Character_parse_obj(json_loads(CharacterJson("a")).val).val

\* the StoryData a caller may construct by hand
CallerData ==
    {[StoryData(p) EXCEPT !.outline = o, !.characters = c] :
        p \in Premises, o \in {None, OutlineA}, c \in {<<>>, <<CharacterA>>}}

InitDirect ==
    /\ pc = "direct"
    /\ data \in CallerData
    /\ premise = data.premise
    /\ stub = [a \in Agents |-> Unset]
    /\ calls = ZeroCalls
    /\ log = <<>>
    /\ returned = None
    /\ history = <<>>
    /\ raw = <<>>
    /\ cleaned = None

\* data = agent.run(data), called directly; after an exception the caller keeps its data
DirectRun(agent) ==
    /\ pc = "direct"
    /\ Len(log) < MaxDirect
    /\ \E r \in Answers(agent) :
          LET o == AgentRun(agent, data, r)
          IN  /\ Invoked(agent, r, o)
              /\ data' = IF o.ok THEN o.out ELSE data
    /\ UNCHANGED <<pc, premise, returned, history, raw, cleaned>>

NextDirect == \E agent \in Agents : DirectRun(agent)

----------------------------------------------------------------------------
\* Stand-alone calls of clean_json on every short text.

TextAlphabet == {WS, TICK, "n", PROSE, "{", "}"}

Texts == UNION {[1..n -> TextAlphabet] : n \in 0..MaxLen}

InitClean ==
    /\ pc = "idle"
    /\ premise = "None"
    /\ data = NoData
    /\ stub = [a \in Agents |-> Unset]
    /\ calls = ZeroCalls
    /\ log = <<>>
    /\ returned = None
    /\ history = <<>>
    /\ raw \in Texts
    /\ cleaned = None

CallCleanJson ==
    /\ cleaned = None
    /\ cleaned' = clean_json(raw)
    /\ UNCHANGED <<pc, premise, data, stub, calls, log, returned, history, raw>>

NextClean == CallCleanJson

SpecClean == InitClean /\ [][NextClean]_vars

----------------------------------------------------------------------------
\* Runs of the pipeline and direct calls of the agents, side by side.

InitBoth == Init \/ InitDirect

NextBoth == Next \/ NextDirect

SpecBoth == InitBoth /\ [][NextBoth]_vars

----------------------------------------------------------------------------
\* Helpers of the properties.

PipelineOrder ==
    <<"PlotArchitectAgent", "CharacterDesignerAgent", "ThematicAnalystAgent", "SceneShaperAgent">>

\* how often the backend was called according to the events of one agent.run
CallEvents(inv) == Len(SelectSeq(inv.events, LAMBDA e : e = "call"))

\* the invocations at which the backend answered with a text
Answered == {i \in 1..Len(log) : log[i].called /\ ~log[i].resp.fail}

\* C1: In every run of run_story_pipeline the agents run in the order
\* PlotArchitectAgent, CharacterDesignerAgent, ThematicAnalystAgent,
\* SceneShaperAgent; an agent starts only after the previous one has returned
\* and is given what it returned; every agent runs at most once and calls the
\* backend at most once (also when the outline needs the clean_json fallback);
\* a completed run has run all four, each exactly once.
C1_FixedOrderOnce ==
    /\ Len(log) <= 4
    /\ \A i \in 1..Len(log) :
          /\ log[i].agent = PipelineOrder[i]
          /\ CallEvents(log[i]) <= 1
          /\ log[i].called <=> CallEvents(log[i]) = 1
          /\ i > 1 => log[i - 1].ok /\ log[i].arg = log[i - 1].out
    /\ \A a \in Agents :
          calls[a] = Cardinality({i \in 1..Len(log) : log[i].agent = a /\ log[i].called})
    /\ \A a \in Agents : calls[a] <= 1
    /\ pc = "done" => Len(log) = 4 /\ \A i \in 1..4 : log[i].ok /\ calls[log[i].agent] = 1

\* a completed run whose outline came through the clean_json fallback
C1_Witness ==
    /\ pc = "done"
    /\ log[1].events = <<"call", "parse", "clean_json", "parse">>

\* C2: When an agent of a run fails, the run ends there: the failing
\* invocation is the last of the run, no backend call follows it, and
\* run_story_pipeline returns no StoryData to its caller.
C2_FailureAborts ==
    /\ \A i \in 1..Len(log) : ~log[i].ok => i = Len(log) /\ pc = "failed"
    /\ pc = "failed" => /\ returned = None
                        /\ log # <<>>
                        /\ ~log[Len(log)].ok
    /\ \A a \in Agents :
          calls[a] = Cardinality({i \in 1..Len(log) : log[i].agent = a /\ log[i].called})
    /\ \A n \in 1..Len(history) :
          history[n].outcome = "failed" =>
             /\ history[n].returned = None
             /\ \A i \in 1..Len(history[n].log) :
                   ~history[n].log[i].ok <=> i = Len(history[n].log)

\* a run that failed in its second agent, after the backend had answered
C2_Witness ==
    /\ pc = "failed"
    /\ Len(log) = 2
    /\ log[2].called
    /\ log[2].err = "JSONDecodeError"

\* the object a response text parses to: directly, or after clean_json
ParsedObject(text) ==
    LET direct == json_loads(text)
        cj == clean_json(text)
    IN  IF direct.ok THEN direct.val
        ELSE IF cj.ok /\ json_loads(cj.text).ok THEN json_loads(cj.text).val
        ELSE None

\* the invocations whose response parsed to a JSON object
ObjectAnswered == {i \in Answered : ParsedObject(log[i].resp.text).k = "obj"}

\* the fields the output of an agent needs from the response object
TopRequired(agent) ==
    CASE agent = "PlotArchitectAgent" ->
            {"title", "theme", "protagonist_desire", "protagonist_need", "scenes"}
      [] agent = "CharacterDesignerAgent" -> {"characters"}
      [] agent = "ThematicAnalystAgent"   -> {"notes"}
      [] agent = "SceneShaperAgent"       -> {"scenes"}

CharacterRequired == {"name", "role", "backstory", "desire", "need"}

\* the response object lacks a field the agent's output needs
OmitsRequired(agent, obj) ==
    \/ \E f \in TopRequired(agent) : ~HasKey(obj, f)
    \/ /\ agent = "CharacterDesignerAgent"
       /\ HasKey(obj, "characters")
       /\ Lookup(obj, "characters").k = "list"
       /\ \E n \in 1..Len(Lookup(obj, "characters").items) :
             /\ Lookup(obj, "characters").items[n].k = "obj"
             /\ \E f \in CharacterRequired : ~HasKey(Lookup(obj, "characters").items[n], f)

\* C3 as stated: a response object that omits a required field of any of the
\* four agents makes that agent fail.
C3_Original ==
    \A i \in ObjectAnswered :
        OmitsRequired(log[i].agent, ParsedObject(log[i].resp.text)) => ~log[i].ok

\* C3 as amended: a response object that omits a required field makes the
\* outline agent and the character agent fail; the critique agent and the
\* scene agent replace a missing notes / scenes by the empty list and return;
\* a character without arc gets the default "Unknown", a given arc is kept.
C3_Amended ==
    \A i \in ObjectAnswered :
        LET a == log[i].agent
            obj == ParsedObject(log[i].resp.text)
        IN  /\ (a \in {"PlotArchitectAgent", "CharacterDesignerAgent"} /\ OmitsRequired(a, obj))
                  => ~log[i].ok
            /\ (a = "ThematicAnalystAgent" /\ ~HasKey(obj, "notes"))
                  => log[i].ok /\ log[i].out.analysis_notes = <<>>
            /\ (a = "SceneShaperAgent" /\ ~HasKey(obj, "scenes"))
                  => log[i].ok /\ log[i].out.screenplay_scenes = <<>>
            /\ (a = "CharacterDesignerAgent" /\ log[i].ok) =>
                  \A n \in 1..Len(log[i].out.characters) :
                      log[i].out.characters[n].arc =
                          IF HasKey(Lookup(obj, "characters").items[n], "arc")
                          THEN Lookup(Lookup(obj, "characters").items[n], "arc").v
                          ELSE "Unknown"

\* a completed run whose critique response had no notes and whose scene response had no scenes
C3_Witness ==
    /\ pc = "done"
    /\ ~HasKey(ParsedObject(log[3].resp.text), "notes")
    /\ ~HasKey(ParsedObject(log[4].resp.text), "scenes")
    /\ log[2].out.characters[1].arc = "b"
    /\ log[2].out.characters[2].arc = "Unknown"

Fields == {"outline", "characters", "analysis_notes", "screenplay_scenes"}

\* the field of StoryData an agent produces
Own(agent) ==
    CASE agent = "PlotArchitectAgent"     -> "outline"
      [] agent = "CharacterDesignerAgent" -> "characters"
      [] agent = "ThematicAnalystAgent"   -> "analysis_notes"
      [] agent = "SceneShaperAgent"       -> "screenplay_scenes"

\* C4: In a run of run_story_pipeline every StoryData an agent returns carries
\* the premise of the run, differs from the StoryData the agent was given in
\* the agent's own field only, and every later agent returns the field with
\* the value it was written with; what the run returns is what the last agent
\* returned.
C4_WriteOnce ==
    /\ \A i \in 1..Len(log) :
          log[i].ok =>
             /\ log[i].out.premise = premise
             /\ \A f \in Fields \ {Own(log[i].agent)} : log[i].out[f] = log[i].arg[f]
             /\ \A j \in (i + 1)..Len(log) :
                   log[j].ok => log[j].out[Own(log[i].agent)] = log[i].out[Own(log[i].agent)]
    /\ pc = "done" => returned = log[Len(log)].out
    /\ pc \in {"L168", "L169", "L170", "L171", "L172", "done", "failed"} =>
          data = IF \E i \in 1..Len(log) : log[i].ok
                 THEN log[CHOOSE i \in 1..Len(log) :
                             log[i].ok /\ \A j \in 1..Len(log) : log[j].ok => j <= i].out
                 ELSE StoryData(premise)

\* a completed run in which every agent wrote a non-empty value
C4_Witness ==
    /\ pc = "done"
    /\ Len(returned.characters) = 2
    /\ returned.analysis_notes # <<>>
    /\ returned.screenplay_scenes # <<>>
    /\ returned.outline.scenes # <<>>

\* the outputs of the upstream agents are present in the StoryData given to invocation i
UpstreamPresent(i) ==
    LET a == log[i].agent
        d == log[i].arg
    IN  CASE a = "PlotArchitectAgent"     -> TRUE
          [] a = "CharacterDesignerAgent" -> d.outline # None
          [] a = "ThematicAnalystAgent"   -> d.outline # None /\ d.characters # <<>>
          [] a = "SceneShaperAgent"       ->
                /\ d.outline # None
                /\ d.characters # <<>>
                /\ \E j \in 1..(i - 1) :
                      /\ log[j].agent = "ThematicAnalystAgent"
                      /\ log[j].ok
                      /\ d.analysis_notes = log[j].out.analysis_notes

\* C5 as stated: an agent calls the backend and returns only if the outputs of
\* all its upstream agents are present in the StoryData it is given; otherwise
\* its run fails before any backend call.
C5_Original ==
    \A i \in 1..Len(log) :
        /\ log[i].called => UpstreamPresent(i)
        /\ ~UpstreamPresent(i) => ~log[i].ok /\ ~log[i].called

\* the first balanced brace literal of a text
RECURSIVE MatchingClose(_, _, _)
\* the position at which the brace opened before position j (depth braces
\* open) is closed, 0 when it never is
MatchingClose(s, j, depth) ==
    IF j > Len(s) THEN 0
    ELSE IF s[j] = "{" THEN MatchingClose(s, j + 1, depth + 1)
    ELSE IF s[j] = "}" THEN (IF depth = 1 THEN j ELSE MatchingClose(s, j + 1, depth - 1))
    ELSE MatchingClose(s, j + 1, depth)

BalancedStarts(s) == {i \in OpenPositions(s) : MatchingClose(s, i + 1, 1) # 0}

FirstBalancedLiteral(s) ==
    SubSeq(s, Min(BalancedStarts(s)), MatchingClose(s, Min(BalancedStarts(s)) + 1, 1))

\* C6 as stated: for a text that holds a balanced brace literal, clean_json
\* returns exactly the first top-level balanced literal, without what
\* precedes it and without what follows it.
C6_Original ==
    (cleaned # None /\ BalancedStarts(raw) # {}) =>
        cleaned.ok /\ cleaned.text = FirstBalancedLiteral(raw)

\* a response text that is empty or whitespace only
Blank(text) == strip(text) = <<>>

\* C7 as stated: an empty or whitespace-only response fails the agent with
\* EmptyOutputError, before any attempt to parse it.
C7_Original ==
    \A i \in Answered :
        Blank(log[i].resp.text) =>
            /\ ~log[i].ok
            /\ log[i].err = "EmptyOutputError"
            /\ \A n \in 1..Len(log[i].events) : log[i].events[n] # "parse"

\* C7 as amended: an empty or whitespace-only response fails the agent with
\* the ValueError that clean_json raises for any text without an opening
\* brace; the character, critique and scene agents raise it before any parse,
\* the outline agent after its direct parse of the response has failed.
C7_Amended ==
    \A i \in Answered :
        /\ Blank(log[i].resp.text) =>
              /\ ~log[i].ok
              /\ log[i].err = NoJsonError
              /\ log[i].events = IF log[i].agent = "PlotArchitectAgent"
                                 THEN <<"call", "parse", "clean_json">>
                                 ELSE <<"call", "clean_json">>
        /\ OpenPositions(log[i].resp.text) = {} => ~log[i].ok /\ log[i].err = NoJsonError

\* the critique agent was answered with whitespace only
C7_Witness ==
    \E i \in Answered :
        /\ log[i].agent = "ThematicAnalystAgent"
        /\ log[i].resp.text = <<WS>>
        /\ ~log[i].ok

\* C8 as stated: run_story_pipeline called with an empty premise is rejected
\* before any agent runs and before any backend call.
C8_Original ==
    (pc # "direct" /\ premise = "") => log = <<>> /\ \A a \in Agents : calls[a] = 0

\* C8 as amended: run_story_pipeline does not check the premise: called with
\* an empty premise it runs the outline agent, which calls the backend, and
\* the empty premise is carried into every StoryData the agents return.
C8_Amended ==
    (premise = "" /\ pc \in {"L169", "L170", "L171", "L172", "done", "failed"}) =>
        /\ log # <<>>
        /\ log[1].agent = "PlotArchitectAgent"
        /\ log[1].arg = StoryData("")
        /\ log[1].called
        /\ calls["PlotArchitectAgent"] = 1
        /\ \A i \in 1..Len(log) : log[i].ok => log[i].out.premise = ""

\* a run with an empty premise that completed
C8_Witness ==
    /\ premise = ""
    /\ pc = "done"
    /\ returned.premise = ""

\* C9: With a backend that gives a fixed answer per agent, two runs of
\* run_story_pipeline with the same premise make the same agent invocations
\* with the same inputs, events, errors and results, and end alike: both
\* return the same StoryData or both fail at the same agent.
C9_Deterministic ==
    \A m, n \in 1..Len(history) :
        history[m].premise = history[n].premise => history[m] = history[n]

\* two completed runs with the same premise
C9_Witness ==
    /\ Len(history) >= 2
    /\ history[1].premise = history[2].premise
    /\ history[2].outcome = "done"

\* C10: A StoryData returned by a completed run has an outline and at least
\* one character; a character response whose characters list is missing or
\* empty fails the character agent, and the critique agent refuses an empty
\* character list before calling the backend.
C10_OutlineAndCharacters ==
    /\ pc = "done" =>
          /\ returned # None
          /\ returned.outline # None
          /\ Len(returned.characters) >= 1
    /\ \A i \in ObjectAnswered :
          (/\ log[i].agent = "CharacterDesignerAgent"
           /\ dict_get(ParsedObject(log[i].resp.text), "characters") = EmptyList)
          => /\ ~log[i].ok
             /\ log[i].err = "ValueError: CharacterDesignerAgent: missing 'characters' in response"
             /\ pc \in {"failed", "direct"}
    /\ \A i \in 1..Len(log) :
          (log[i].agent = "ThematicAnalystAgent" /\ log[i].arg.characters = <<>>)
          => ~log[i].ok /\ ~log[i].called

\* a completed run with no analysis notes and no screenplay scenes
C10_Witness ==
    /\ pc = "done"
    /\ returned.analysis_notes = <<>>
    /\ returned.screenplay_scenes = <<>>
    /\ Len(returned.characters) >= 1

====
